---------------------------- MODULE Spec2Model ----------------------------
(***************************************************************************)
(* PID image decoder (pid2png).  Two builds of the same decoder are        *)
(* modelled side by side:                                                  *)
(*   variant = "main" : the standalone converter, src/src/main.rs          *)
(*   variant = "lib"  : the embedded (wasm) decoder, src/src/lib.rs        *)
(* A behaviour is one run over one input: header, pixel decompression,     *)
(* optional palette, colour resolution, then save (main) or return (lib).  *)
(***************************************************************************)
EXTENDS Integers, Sequences, FiniteSets, TLC

(* ------------------------------ bounds -------------------------------- *)
\* largest width*height of an input image
MaxPixels == 4
\* longest hand-written (not encoder-made) compressed stream
MaxBody == 3

(* ------------------------- program constants -------------------------- *)
FieldWidth == 4
HeaderFields == 8
HeaderSize == HeaderFields * FieldWidth
FlagTransparency == 1
FlagCompression == 32
FlagPalette == 128
RunBase == 192
ZeroRunBase == 128
PaletteLen == 256
PaletteBytes == 3 * PaletteLen
Opaque == 255
\* 2^30: the number of 4-byte units at which a byte count leaves a u32
U32Units == 1073741824

(* --------------------------- flag accessors --------------------------- *)
\* self.flags & mask != 0, for a one-bit mask
HasBit(f, mask) == (f \div mask) % 2 = 1
use_transparency(f) == HasBit(f, FlagTransparency)
has_palette(f) == HasBit(f, FlagPalette)
\* compression_method: "Default" when bit 0x20 is clear
compression_method(f) ==
    IF ~HasBit(f, FlagCompression) THEN "Default" ELSE "RunLengthEncoding"

(* ---------------------------- byte helpers ---------------------------- *)
Min(a, b) == IF a <= b THEN a ELSE b
Signed8(b) == IF b >= 128 THEN b - 256 ELSE b
\* u32::to_le_bytes
to_le_bytes(n) ==
    << n % 256, (n \div 256) % 256, (n \div 65536) % 256, (n \div 16777216) % 256 >>
\* little-endian u32 of four bytes (inputs keep the top byte below 128, so
\* the value stays below 2^31)
U32LE(b) == b[1] + 256 * b[2] + 65536 * b[3] + 16777216 * b[4]
\* little-endian two's-complement i32 of four bytes
I32LE(b) == b[1] + 256 * b[2] + 65536 * b[3] + 16777216 * Signed8(b[4])
\* big-endian two's-complement i32 of four bytes
I32BE(b) == b[4] + 256 * b[3] + 65536 * b[2] + 16777216 * Signed8(b[1])
Repeat(v, n) == [i \in 1..n |-> v]

\* u32 * u32, byte by byte: column k (0-based) of the schoolbook product of
\* two 4-byte little-endian numbers, and the carry that enters it
RECURSIVE MulColumn(_, _, _, _)
MulColumn(a, b, k, i) ==
    IF i > 3 THEN 0
    ELSE (IF k - i \in 0..3 THEN a[i + 1] * b[k - i + 1] ELSE 0) + MulColumn(a, b, k, i + 1)
RECURSIVE MulCarry(_, _, _)
MulCarry(a, b, k) ==
    IF k = 0 THEN 0
    ELSE (MulColumn(a, b, k - 1, 0) + MulCarry(a, b, k - 1)) \div 256
\* byte k (0-based, 0..7) of the 64-bit product
MulByte(a, b, k) == (MulColumn(a, b, k, 0) + MulCarry(a, b, k)) % 256
\* the product does not fit in 32 bits: `width * height` panics in a build
\* with overflow checks
mul_overflows(w, h) ==
    \E k \in 4..7 : MulByte(to_le_bytes(w), to_le_bytes(h), k) # 0
\* the low 32 bits of the product: `width * height` in a build without
\* overflow checks
wrapping_mul(w, h) ==
    U32LE([k \in 1..4 |-> MulByte(to_le_bytes(w), to_le_bytes(h), k - 1)])

\* u32 + u32 by 16-bit halves: whether the sum leaves 32 bits (a panic in a
\* build with overflow checks), and its low 32 bits
add_overflows(a, b) ==
    (a \div 65536) + (b \div 65536) + ((a % 65536) + (b % 65536)) \div 65536 >= 65536
wrapping_add(a, b) ==
    LET lo == (a % 65536) + (b % 65536)
        hi == ((a \div 65536) + (b \div 65536) + (lo \div 65536)) % 65536
    IN  65536 * hi + (lo % 65536)

\* w * h <= n, without forming the product
ProductAtMost(w, h, n) == w = 0 \/ h <= n \div w

(* ------------------------------- state -------------------------------- *)
VARIABLES
    variant,      \* "main" or "lib"
    data,         \* the input bytes (file contents / host memory)
    encoded,      \* TRUE when data was produced by an encoder from orig
    orig,         \* the index buffer the encoder was given (else << >>)
    alloc_fill,   \* byte value found in memory handed out by the host's alloc
    pc,           \* position in the run
    offset,       \* cursor position, 0-based
    id, flags, width, height, user_values,
    pixels_count,
    pixels,       \* Vec<u8> (main) / Buffer of pixels_count bytes (lib)
    pixel,        \* number of indices written so far
    palette,      \* << >> for None, else 256 triples
    out_dims,     \* ImageBuffer width, height (main)
    output,       \* main: the bytes put_pixel stored in the zeroed ImageBuffer,
                  \* in buffer order; lib: the canvas in host memory
    spin          \* parity of the panic handler's loop

vars == << variant, data, encoded, orig, alloc_fill, pc, offset, id, flags,
           width, height, user_values, pixels_count, pixels, pixel, palette,
           out_dims, output, spin >>

inputVars == << variant, data, encoded, orig, alloc_fill >>
headerVars == << id, flags, width, height, user_values, pixels_count >>
outVars == << out_dims, output >>

\* Cursor: bytes left after the cursor
remaining(d, off) == Len(d) - off
\* the byte at 0-based position off (0 where there is none; every use is
\* guarded by remaining)
ByteAt(d, off) == IF off < Len(d) THEN d[off + 1] ELSE 0
\* the four bytes of header field k (0-based)
Field(d, k) == SubSeq(d, FieldWidth * k + 1, FieldWidth * k + FieldWidth)

\* how a failed read ends the run: bytes::Buf panics and the process
\* aborts (main); the host import has nothing to return and traps (lib)
ReadFailure(v) == IF v = "main" THEN "aborted" ELSE "trapped"


(* ------------------------------- inputs ------------------------------- *)
\* index values an encoder is given: the transparent index, a value that
\* Default stores as a literal (the largest one), a value it must store as
\* a run
PixelSample == {0, 192, 200}
\* bytes of hand-written streams: the no-op / literal 0, a literal count
\* of 2, zero runs of 1 and 3 (literals under Default), a Default run of 3
ByteSample == {0, 2, 129, 131, 195}
\* flag words: every combination of the three bits the decoder reads, and
\* two with all the other low bits set
FlagCombos == {0, 1, 32, 33, 128, 129, 160, 161}
FlagSample == FlagCombos \cup {94, 222}
\* run caps of the two encoders: one token per pixel, or maximal runs
EncoderCaps == {1, 63}
\* host memory is handed out either zeroed or with earlier contents
AllocFills == {0, 170}

Dims == {d \in (0..MaxPixels) \X (0..MaxPixels) : d[1] * d[2] <= MaxPixels}
Buffers(n) == [1..n -> PixelSample]
Bodies == UNION {[1..n -> ByteSample] : n \in 0..MaxBody}

\* id and user-value bytes of the header
HeaderPatterns ==
    { [id |-> <<7, 0, 0, 0>>,
       uv |-> << <<0, 0, 0, 0>>, <<1, 0, 0, 0>>, <<0, 0, 0, 2>>, <<5, 5, 5, 5>> >>],
      [id |-> <<254, 255, 255, 255>>,
       uv |-> << <<255, 255, 255, 255>>, <<0, 0, 0, 128>>, <<128, 0, 0, 0>>, <<1, 2, 3, 4>> >>] }
PlainHeader ==
    [id |-> <<7, 0, 0, 0>>,
     uv |-> << <<0, 0, 0, 0>>, <<3, 0, 0, 0>>, <<0, 0, 0, 0>>, <<9, 9, 9, 9>> >>]

Header(pat, f, w, h) ==
    pat.id \o to_le_bytes(f) \o to_le_bytes(w) \o to_le_bytes(h)
           \o pat.uv[1] \o pat.uv[2] \o pat.uv[3] \o pat.uv[4]

\* a palette file section: 768 bytes, all three channels of an entry differ
PaletteSection == [i \in 1..PaletteBytes |-> (3 + 7 * i) % 256]
Trailer(f) == IF has_palette(f) THEN PaletteSection ELSE << >>

\* length of the run of equal values that starts at buf[i], at most cap
RECURSIVE RunLen(_, _, _)
RunLen(buf, i, cap) ==
    IF cap <= 1 \/ i >= Len(buf) \/ buf[i + 1] # buf[i] THEN 1
    ELSE 1 + RunLen(buf, i + 1, cap - 1)
\* number of non-zero values that start at buf[i], at most cap
RECURSIVE LitLen(_, _, _)
LitLen(buf, i, cap) ==
    IF cap <= 1 \/ i >= Len(buf) \/ buf[i + 1] = 0 THEN 1
    ELSE 1 + LitLen(buf, i + 1, cap - 1)

\* an encoder for the Default scheme (spec 4.3): a value above 192 or a
\* run longer than one goes out as (192 + n, value), anything else as itself
RECURSIVE EncodeDefault(_, _, _)
EncodeDefault(buf, i, cap) ==
    IF i > Len(buf) THEN << >>
    ELSE LET r == RunLen(buf, i, cap)
             v == buf[i]
         IN  (IF r = 1 /\ v <= RunBase THEN <<v>> ELSE <<RunBase + r, v>>)
                 \o EncodeDefault(buf, i + r, cap)

\* an encoder for the RunLengthEncoding scheme (spec 4.4): zeros go out as
\* 128 + n, other values as a count followed by the values
RECURSIVE EncodeRle(_, _, _)
EncodeRle(buf, i, cap) ==
    IF i > Len(buf) THEN << >>
    ELSE IF buf[i] = 0
         THEN LET r == RunLen(buf, i, cap)
              IN  <<ZeroRunBase + r>> \o EncodeRle(buf, i + r, cap)
         ELSE LET k == LitLen(buf, i, cap)
              IN  <<k>> \o SubSeq(buf, i, i + k - 1) \o EncodeRle(buf, i + k, cap)

Encode(f, buf, cap) ==
    IF compression_method(f) = "Default" THEN EncodeDefault(buf, 1, cap)
    ELSE EncodeRle(buf, 1, cap)

DropLast(s, n) == SubSeq(s, 1, Len(s) - Min(n, Len(s)))

Fresh ==
    /\ pc = "start"
    /\ offset = 0
    /\ id = 0 /\ flags = 0 /\ width = 0 /\ height = 0
    /\ user_values = <<0, 0, 0, 0>>
    /\ pixels_count = 0
    /\ pixels = << >>
    /\ pixel = 0
    /\ palette = << >>
    /\ out_dims = <<0, 0>>
    /\ output = << >>
    /\ spin = 0

\* well-formed files made by an encoder from an index buffer
InitEncoded ==
    \E f \in FlagCombos, d \in Dims, cap \in EncoderCaps :
      \E buf \in Buffers(d[1] * d[2]) :
        /\ data = Header(PlainHeader, f, d[1], d[2]) \o Encode(f, buf, cap) \o Trailer(f)
        /\ encoded = TRUE
        /\ orig = buf

\* hand-written streams: runs that overshoot, no-op steps, short data
InitRaw ==
    \E f \in {0, FlagCompression}, w \in 0..MaxPixels, body \in Bodies :
        /\ data = Header(PlainHeader, f, w, 1) \o body
        /\ encoded = FALSE
        /\ orig = << >>

\* one-pixel files with varied id, user values and flag words, whole, cut
\* inside the header, or cut short of their last bytes
InitCut ==
    \E pat \in HeaderPatterns, f \in FlagSample :
      LET full == Header(pat, f, 1, 1) \o Encode(f, <<192>>, 1) \o Trailer(f)
      IN  \E keep \in (0..(HeaderSize + 2)) \cup ((Len(full) - 2)..Len(full)) :
            /\ data = SubSeq(full, 1, Min(keep, Len(full)))
            /\ encoded = FALSE
            /\ orig = << >>

\* headers whose width * height is 2^32 or more
InitHuge ==
    \E f \in {0, 1, FlagCompression, FlagPalette}, d \in {<<65536, 65536>>, <<131072, 32768>>},
       body \in {<< >>, <<5, 6>>} :
        /\ data = Header(PlainHeader, f, d[1], d[2]) \o body \o Trailer(f)
        /\ encoded = FALSE
        /\ orig = << >>

Init ==
    /\ variant \in {"main", "lib"}
    /\ alloc_fill \in (IF variant = "main" THEN {0} ELSE AllocFills)
    /\ InitEncoded \/ InitRaw \/ InitCut \/ InitHuge
    /\ Fresh

(* ------------------------------ decode_pid ---------------------------- *)
\* get_i32 (main) / next_i32_le (lib) applied to a user-value field
ReadUserValue(v, b) == IF v = "main" THEN I32BE(b) ELSE I32LE(b)

\* Buffer::new(pixels_count) is host memory; Vec::with_capacity is empty
NewPixels(v, n, fill) == IF v = "main" THEN << >> ELSE Repeat(fill, n)

\* how a panic ends the run: the process aborts (main); the panic handler
\* is entered (lib)
PanicEnd(v) == IF v = "main" THEN "aborted" ELSE "panic"

\* decode_pid up to the pixel buffer's allocation: the eight header reads
\* and pixels_count = (width * height) as usize, a u32 product.  When the
\* product does not fit, a build with overflow checks panics there and a
\* build without them goes on with the low 32 bits.  Vec::with_capacity
\* asks the allocator for pixels_count bytes, a request that is met or not
\* (the process stops when it is not); Buffer::new takes them from the host.
ReadHeader ==
    /\ pc = "start"
    /\ LET k == Min(HeaderFields, Len(data) \div FieldWidth)
       IN  IF k < HeaderFields
           THEN /\ pc' = ReadFailure(variant)
                /\ offset' = FieldWidth * k
                /\ UNCHANGED << headerVars, pixels >>
           ELSE /\ id' = I32LE(Field(data, 0))
                /\ flags' = U32LE(Field(data, 1))
                /\ width' = U32LE(Field(data, 2))
                /\ height' = U32LE(Field(data, 3))
                /\ user_values' = [i \in 1..4 |-> ReadUserValue(variant, Field(data, 3 + i))]
                /\ offset' = HeaderFields * FieldWidth
                /\ \E overflow_checks \in BOOLEAN :
                      IF mul_overflows(width', height') /\ overflow_checks
                      THEN /\ pc' = PanicEnd(variant)
                           /\ UNCHANGED << pixels_count, pixels >>
                      ELSE /\ pixels_count' = wrapping_mul(width', height')
                           /\ \E met \in BOOLEAN :
                                 IF variant = "main" /\ pixels_count' > 0 /\ ~met
                                 THEN /\ pixels' = pixels
                                      /\ pc' = "alloc_failed"
                                 ELSE /\ pixels' = NewPixels(variant, pixels_count', alloc_fill)
                                      /\ pc' = "decompress"
    /\ UNCHANGED << inputVars, pixel, palette, outVars, spin >>

(* --------------------------- decompression ---------------------------- *)
\* a loop that tests its condition with <= and so runs once more
LoopContinues_inclusive(done, count) == done <= count
\* the while condition of both decompressors
LoopContinues(done, count) == done < count
\* a run test that takes 192 itself for a control byte
IsRun_inclusive(a) == a >= RunBase
\* Default: a control byte above 192 announces a run
IsRun(a) == a > RunBase
\* RunLengthEncoding: a control byte above 128 announces a run of zeros
IsZeroRun(a) == a > ZeroRunBase
\* where the cursor stands after the control byte at off was read
AfterControl(off) == off + 1

\* One iteration of decompress_default's loop, as far as the reads go:
\* bytes consumed, indices to store, whether a read found no byte
StepDefault(d, off) ==
    IF remaining(d, off) < 1
    THEN [consumed |-> 0, emit |-> << >>, fail |-> TRUE, literal |-> FALSE]
    ELSE LET a == ByteAt(d, off)
         IN  IF IsRun(a)
             THEN IF remaining(d, AfterControl(off)) < 1
                  THEN [consumed |-> AfterControl(off) - off, emit |-> << >>,
                        fail |-> TRUE, literal |-> FALSE]
                  ELSE [consumed |-> AfterControl(off) + 1 - off,
                        emit |-> Repeat(ByteAt(d, AfterControl(off)), a - RunBase),
                        fail |-> FALSE, literal |-> FALSE]
             ELSE [consumed |-> AfterControl(off) - off, emit |-> <<a>>,
                   fail |-> FALSE, literal |-> FALSE]

\* One iteration of decompress_run_length_encoding's loop; a literal block
\* reads and stores byte by byte, as many as the data holds
StepRle(d, off) ==
    IF remaining(d, off) < 1
    THEN [consumed |-> 0, emit |-> << >>, fail |-> TRUE, literal |-> FALSE]
    ELSE LET a == ByteAt(d, off)
             c == AfterControl(off)
         IN  IF IsZeroRun(a)
             THEN [consumed |-> c - off, emit |-> Repeat(0, a - ZeroRunBase),
                   fail |-> FALSE, literal |-> FALSE]
             ELSE LET m == Min(a, remaining(d, c))
                  IN  [consumed |-> c + m - off,
                       emit |-> [i \in 1..m |-> ByteAt(d, c + i - 1)],
                       fail |-> m < a, literal |-> TRUE]

\* The stores of one iteration.  main pushes onto the Vec, and a push past
\* the capacity asked for makes the Vec ask the allocator for more, which
\* is met or not; lib writes into the fixed buffer, and a write at index
\* pixels_count fails the slice's bounds check, which panics.
ApplyStep(st) ==
    IF variant = "main"
    THEN /\ pixels' = pixels \o st.emit
         /\ pixel' = Len(pixels')
         /\ offset' = offset + st.consumed
         /\ pc' \in {IF st.fail THEN "aborted" ELSE "decompress"}
                       \cup (IF Len(pixels') > pixels_count THEN {"alloc_failed"} ELSE {})
    ELSE LET room == pixels_count - pixel
             n == Min(Len(st.emit), room)
         IN  /\ pixels' = [i \in 1..pixels_count |->
                             IF i > pixel /\ i <= pixel + n
                             THEN st.emit[i - pixel] ELSE pixels[i]]
             /\ pixel' = pixel + n
             /\ IF Len(st.emit) > room
                THEN /\ pc' = "panic"
                     /\ offset' = IF st.literal
                                  THEN AfterControl(offset) + room + 1
                                  ELSE offset + st.consumed
                ELSE /\ pc' = IF st.fail THEN "trapped" ELSE "decompress"
                     /\ offset' = offset + st.consumed

DecompressDefault ==
    /\ pc = "decompress"
    /\ compression_method(flags) = "Default"
    /\ LoopContinues(pixel, pixels_count)
    /\ ApplyStep(StepDefault(data, offset))
    /\ UNCHANGED << inputVars, headerVars, palette, outVars, spin >>

DecompressRle ==
    /\ pc = "decompress"
    /\ compression_method(flags) = "RunLengthEncoding"
    /\ LoopContinues(pixel, pixels_count)
    /\ ApplyStep(StepRle(data, offset))
    /\ UNCHANGED << inputVars, headerVars, palette, outVars, spin >>

(* ------------------------------ palette ------------------------------- *)
\* palette entries taken to be four bytes apart
PaletteEntry_stride4(d, off, k) ==
    << ByteAt(d, off + 4 * k), ByteAt(d, off + 4 * k + 1), ByteAt(d, off + 4 * k + 2) >>
\* entry k (0-based) of the palette read at cursor position off
PaletteEntry(d, off, k) ==
    << ByteAt(d, off + 3 * k), ByteAt(d, off + 3 * k + 1), ByteAt(d, off + 3 * k + 2) >>

\* After the loop, with flag 0x80: 256 entries of three bytes.  main's
\* read_exact fails on a short entry and expect panics; lib's cursor runs
\* off the host's bytes.  Where a failed read_exact leaves main's cursor
\* depends on the standard library: at the entry that could not be read, or
\* at the end of the data.
ReadPalette ==
    /\ pc = "decompress"
    /\ ~LoopContinues(pixel, pixels_count)
    /\ has_palette(flags)
    /\ IF remaining(data, offset) >= PaletteBytes
       THEN /\ palette' = [k \in 1..PaletteLen |-> PaletteEntry(data, offset, k - 1)]
            /\ offset' = offset + PaletteBytes
            /\ pc' = "decoded"
       ELSE /\ palette' = palette
            /\ offset' \in IF variant = "main"
                            THEN {offset + 3 * (remaining(data, offset) \div 3), Len(data)}
                            ELSE {Len(data)}
            /\ pc' = ReadFailure(variant)
    /\ UNCHANGED << inputVars, headerVars, pixels, pixel, outVars, spin >>

\* After the loop, without flag 0x80: palette = None
NoPalette ==
    /\ pc = "decompress"
    /\ ~LoopContinues(pixel, pixels_count)
    /\ ~has_palette(flags)
    /\ palette' = << >>
    /\ pc' = "decoded"
    /\ UNCHANGED << inputVars, headerVars, offset, pixels, pixel, outVars, spin >>

(* -------------------------- colour resolution ------------------------- *)
\* if let Some(palette) = img.palette
IsSome(pal) == Len(pal) # 0
\* i = (y * width + x) as usize, a u32 sum that a build without overflow
\* checks keeps the low 32 bits of
PixelIndex(x, y, w, h) ==
    LET i == y * w + x
    IN  IF i \div 65536 < 65536 THEN i ELSE i % (65536 * 65536)
\* a resolver that makes index 0 transparent whatever the flag says
resolve_flagless(pal, f, p) ==
    IF p = 0
    THEN <<0, 0, 0, 0>>
    ELSE <<pal[p + 1][1], pal[p + 1][2], pal[p + 1][3], Opaque>>
\* the RGBA quad of index p
resolve(pal, f, p) ==
    IF use_transparency(f) /\ p = 0
    THEN <<0, 0, 0, 0>>
    ELSE <<pal[p + 1][1], pal[p + 1][2], pal[p + 1][3], Opaque>>

\* a resolver that falls back to opaque grey levels without a palette
ResolvedByte_gray(q, init, pix, pal, f, w, h) ==
    LET k == q \div 4
        x == k % w
        y == k \div w
        p == pix[y * w + x + 1]
    IN  IF Len(pal) # 0
        THEN (IF HasBit(f, FlagTransparency) /\ p = 0 THEN <<0, 0, 0, 0>>
              ELSE <<pal[p + 1][1], pal[p + 1][2], pal[p + 1][3], Opaque>>)[(q % 4) + 1]
        ELSE <<p, p, p, Opaque>>[(q % 4) + 1]
\* the RGBA byte at 0-based position q of the pixel area after the
\* resolver's loop; init is the byte the area held before
ResolvedByte(q, init, pix, pal, f, w, h) ==
    LET k == q \div 4
        x == k % w
        y == k \div w
    IN  IF IsSome(pal) THEN resolve(pal, f, pix[PixelIndex(x, y, w, h) + 1])[(q % 4) + 1]
        ELSE init

\* pid_image_to_image_buffer: the lookups img.pixels[i] all find an index
\* (i runs over 0 .. width*height - 1, kept to 32 bits)
AllIndexed(pix, w, h) == ProductAtMost(w, h, Len(pix)) \/ Len(pix) \div 65536 >= 65536
\* pid_image_to_image_buffer: ImageBuffer::new(width, height) is 4 * width *
\* height zeroed bytes; these are the bytes put_pixel stores into it, from
\* its start (none without a palette)
ImageBufferOf(pix, pal, f, w, h) ==
    IF IsSome(pal)
    THEN [q \in 1..(4 * w * h) |-> ResolvedByte(q - 1, 0, pix, pal, f, w, h)]
    ELSE << >>

\* from_canvas_with_dimensions: 2 + width * height, a u32 sum
CanvasUnits(w, h) == wrapping_add(2, wrapping_mul(w, h))
\* 4 * (..) as usize, the length of the canvas slice, in 4-byte units:
\* exact in a 64-bit usize, the low 32 bits of the byte count in a 32-bit one
CanvasLen(w, h, wide) == IF wide THEN CanvasUnits(w, h) ELSE CanvasUnits(w, h) % U32Units
\* alloc(size as u32): what the host hands out, in 4-byte units
CanvasAlloc(w, h) == CanvasUnits(w, h) % U32Units
\* the size computation overflows: a panic in a build with overflow checks
CanvasOverflows(w, h, wide) ==
    \/ add_overflows(2, wrapping_mul(w, h))
    \/ ~wide /\ CanvasUnits(w, h) >= U32Units
\* the 4-byte stores write_pid_to_canvas_image_data sets out to make, in
\* order from the canvas's start: width, height, then set_pixel for
\* i in 0..pix_count when there is a palette
CanvasStores(pal, w, h) == IF IsSome(pal) THEN 2 + wrapping_mul(w, h) ELSE 2
\* the host's canvas after those stores: every byte of it lies inside the
\* slice, so width and height are in its first eight bytes (as far as it
\* has them) and the pixel area behind them is resolved
CanvasOf(pix, pal, f, w, h, fill) ==
    LET head == to_le_bytes(w) \o to_le_bytes(h)
    IN  [q \in 1..(4 * CanvasAlloc(w, h)) |->
            IF q <= 2 * FieldWidth THEN head[q]
            ELSE ResolvedByte(q - 2 * FieldWidth - 1, fill, pix, pal, f, w, h)]

\* main: ImageBuffer::new asks the allocator for its bytes, a request that
\* is met or not; with a palette, a lookup past the end of pixels panics.
\* lib: a build with overflow checks (it got here, so width * height fits)
\* panics when the canvas size overflows; otherwise the stores run until
\* one fails the slice's bounds check, which panics.  Where a 64-bit usize
\* makes the slice longer than the allocation, a store past the allocation
\* goes through or faults.
Resolve ==
    /\ pc = "decoded"
    /\ IF variant = "main"
       THEN \E met \in BOOLEAN :
              IF width > 0 /\ height > 0 /\ ~met
              THEN /\ UNCHANGED outVars
                   /\ pc' = "alloc_failed"
              ELSE IF IsSome(palette) /\ ~AllIndexed(pixels, width, height)
                   THEN /\ UNCHANGED outVars
                        /\ pc' = "aborted"
                   ELSE /\ out_dims' = <<width, height>>
                        /\ output' = ImageBufferOf(pixels, palette, flags, width, height)
                        /\ pc' = "resolved"
       ELSE \E overflow_checks \in BOOLEAN, wide_usize \in BOOLEAN :
              /\ overflow_checks => ~mul_overflows(width, height)
              /\ IF overflow_checks /\ CanvasOverflows(width, height, wide_usize)
                 THEN /\ UNCHANGED outVars
                      /\ pc' = "panic"
                 ELSE LET todo == CanvasStores(palette, width, height)
                          len == CanvasLen(width, height, wide_usize)
                      IN  /\ out_dims' = out_dims
                          /\ output' = CanvasOf(pixels, palette, flags, width, height, alloc_fill)
                          /\ pc' \in {IF todo > len THEN "panic" ELSE "resolved"}
                                    \cup (IF Min(todo, len) > CanvasAlloc(width, height)
                                          THEN {"trapped"} ELSE {})
    /\ UNCHANGED << inputVars, headerVars, offset, pixels, pixel, palette, spin >>

(* ------------------------------ the ends ------------------------------ *)
\* main: output.save(..).expect(..); writing the file succeeds or panics
Save ==
    /\ pc = "resolved"
    /\ variant = "main"
    /\ \E ok \in BOOLEAN : pc' = IF ok THEN "saved" ELSE "save_failed"
    /\ UNCHANGED << inputVars, headerVars, offset, pixels, pixel, palette, outVars, spin >>

\* lib: the buffer's address goes back to the host
Return ==
    /\ pc = "resolved"
    /\ variant = "lib"
    /\ pc' = "returned"
    /\ UNCHANGED << inputVars, headerVars, offset, pixels, pixel, palette, outVars, spin >>

\* lib's panic handler: loop {}
PanicLoop ==
    /\ pc = "panic"
    /\ spin' = 1 - spin
    /\ UNCHANGED << inputVars, headerVars, pc, offset, pixels, pixel, palette, outVars >>

Next ==
    \/ ReadHeader
    \/ DecompressDefault
    \/ DecompressRle
    \/ ReadPalette
    \/ NoPalette
    \/ Resolve
    \/ Save
    \/ Return
    \/ PanicLoop

Spec == Init /\ [][Next]_vars

\* a sequential program takes its next step whenever it has one
FairSpec == Spec /\ WF_vars(Next)

(* ------------------------------- claims ------------------------------- *)
\* decode_pid has returned an image
Decoded == pc \in {"decoded", "resolved", "saved", "save_failed", "returned"}
\* the resolver has run
Resolved == pc \in {"resolved", "saved", "save_failed", "returned"}
\* the run is over
Terminated == pc \in {"saved", "save_failed", "aborted", "alloc_failed", "returned", "trapped"}
\* 0-based position of the first RGBA byte in output
PixelBase == IF variant = "main" THEN 0 ELSE 2 * FieldWidth
\* number of RGBA quads in output (main: of those stored)
OutPixels == (Len(output) - PixelBase) \div 4
\* w * h >= n, without forming the product
ProductAtLeast(w, h, n) == n = 0 \/ ~ProductAtMost(w, h, n - 1)
\* the RGBA quad of pixel i (0-based) in output
OutQuad(i) == SubSeq(output, PixelBase + 4 * i + 1, PixelBase + 4 * i + 4)

\* C1: the index buffer never holds more than width*height entries, holds
\* exactly that many once decompression is over, and no store is attempted
\* at a position >= width*height (in lib such a store is the panic that
\* follows a read of the stream).
C1_ExactLength ==
    /\ ProductAtLeast(width, height, Len(pixels))
    /\ Decoded => ProductAtMost(width, height, Len(pixels))
    /\ ~(pc = "panic" /\ offset > 32)

\* C2: with a palette, every pixel i of the output is (0,0,0,0) exactly when the
\* transparency flag is set and index i is 0, and otherwise is the palette
\* entry of index i with alpha 255.
C2_Resolver ==
    (Resolved /\ IsSome(palette)) =>
        \A i \in 0..(OutPixels - 1) :
            LET p == pixels[i + 1]
                t == HasBit(flags, 1) /\ p = 0
            IN  /\ (OutQuad(i) = <<0, 0, 0, 0>>) <=> t
                /\ ~t => OutQuad(i) = <<palette[p + 1][1], palette[p + 1][2],
                                        palette[p + 1][3], 255>>

C2_Witness ==
    /\ pc = "resolved"
    /\ IsSome(palette)
    /\ use_transparency(flags)
    /\ width = 2 /\ height = 2
    /\ pixels = <<0, 192, 200, 0>>

\* C3: a file made by an encoder decodes without failure, and the decoded
\* index buffer is the buffer the encoder was given, under both schemes.
C3_RoundTrip ==
    encoded => /\ pc \notin {"aborted", "trapped", "panic"}
               /\ Decoded => pixels = orig

C3_Witness ==
    /\ encoded
    /\ pc = "decoded"
    /\ compression_method(flags) = "RunLengthEncoding"
    /\ orig = <<0, 192, 200, 0>>

\* C4: the step that reads the header leaves the cursor at 32 and every one
\* of the eight fields holds the little-endian value of its four bytes.
C4_HeaderLittleEndian ==
    [][(pc = "start" /\ pc' = "decompress") =>
          /\ offset' = 32
          /\ id' = I32LE(SubSeq(data, 1, 4))
          /\ flags' = U32LE(SubSeq(data, 5, 8))
          /\ width' = U32LE(SubSeq(data, 9, 12))
          /\ height' = U32LE(SubSeq(data, 13, 16))
          /\ \A i \in 1..4 :
                user_values'[i] = I32LE(SubSeq(data, 13 + 4 * i, 16 + 4 * i))]_vars

\* C5: the step that ends decode_pid reads a palette exactly when bit 0x80
\* is set: then the cursor moves on by 768 and entry k is the three bytes
\* at 3k, 3k+1, 3k+2 past the decompressor's cursor; otherwise the palette
\* is absent and the cursor does not move.
C5_PaletteStage ==
    [][(pc = "decompress" /\ pc' = "decoded") =>
          IF (flags \div 128) % 2 = 1
          THEN /\ offset' = offset + 768
               /\ Len(palette') = 256
               /\ \A k \in 0..255 :
                     palette'[k + 1] = << data[offset + 3 * k + 1],
                                          data[offset + 3 * k + 2],
                                          data[offset + 3 * k + 3] >>
          ELSE /\ offset' = offset
               /\ palette' = << >>]_vars

C5_Witness ==
    /\ pc = "decoded"
    /\ flags = 222
    /\ Len(palette) = 256
    /\ palette[1] # palette[2]

\* C6 as claimed: a decoded image of width 0 or height 0 has an empty index
\* buffer and the cursor still at 32.
C6_CursorStaysAtHeader ==
    (Decoded /\ (width = 0 \/ height = 0)) =>
        /\ pixels = << >>
        /\ offset = 32

\* C6 as amended: with width 0 or height 0 the decompressor reads nothing
\* (the cursor is at 32 when the palette stage starts) and the index buffer
\* is empty; decode_pid ends with the cursor at 32 when bit 0x80 is clear
\* and at 32 + 768 when it is set.
C6_ZeroSize ==
    (width = 0 \/ height = 0) =>
        /\ pc = "decompress" => offset = 32
        /\ Decoded => /\ pixels = << >>
                      /\ offset = IF (flags \div 128) % 2 = 1 THEN 32 + 768 ELSE 32

C6_Witness ==
    /\ pc = "decoded"
    /\ width = 0 /\ height > 0
    /\ has_palette(flags)
    /\ offset = 800

\* C7: one iteration of either decompression loop consumes at most the
\* control byte and one byte for each index still missing, so no byte past
\* the one that produced the last index is consumed.
C7_NoOverread ==
    [][(pc = "decompress" /\ LoopContinues(pixel, pixels_count)) =>
          offset' - offset <= 1 + (pixels_count - pixel)]_vars

\* C8: in the standalone converter, a run in which decode_pid returns an
\* image, so that the resolver and the save step follow, read its header,
\* its width*height indices and (with bit 0x80) its whole palette from
\* bytes the input really holds; otherwise the run has failed.
C8_FailFast ==
    (variant = "main" /\ Decoded) =>
        /\ Len(data) >= 32
        /\ offset <= Len(data)
        /\ ProductAtMost(U32LE(SubSeq(data, 9, 12)), U32LE(SubSeq(data, 13, 16)), Len(pixels))
        /\ (U32LE(SubSeq(data, 5, 8)) \div 128) % 2 = 1 => Len(palette) = 256

\* C9: without a palette every RGBA byte of the output keeps the value it
\* had before resolution (main: nothing is stored in the zeroed image; lib:
\* the pixel area holds the allocation's contents) and the output carries
\* the header's width and height.
C9_NoPaletteNoWrite ==
    (Resolved /\ (flags \div 128) % 2 = 0) =>
        IF variant = "main"
        THEN /\ output = << >>
             /\ out_dims = <<width, height>>
        ELSE /\ Len(output) = 8 + 4 * pixels_count
             /\ \A q \in 9..Len(output) : output[q] = alloc_fill
             /\ U32LE(SubSeq(output, 1, 4)) = width
             /\ U32LE(SubSeq(output, 5, 8)) = height

C9_Witness ==
    /\ pc = "resolved"
    /\ variant = "lib"
    /\ alloc_fill = 170
    /\ ~has_palette(flags)
    /\ use_transparency(flags)
    /\ width = 2 /\ height = 2
    /\ pixels = <<0, 192, 200, 0>>

\* C10: every run ends: it completes or stops with a failure.
C10_Terminates == <>Terminated

============================================================================
